---- MODULE Spec2Model ----
(***************************************************************************)
(* Model of the "Buscador de Procesos" page component (src/app/page.tsx):  *)
(* the React state of Home, its event handlers, and the row scan of        *)
(* handleSearch with its header classification and label reconstruction.   *)
(*                                                                         *)
(* JavaScript strings are TLA+ strings; a spreadsheet cell is a record     *)
(* [k, s, n] with k one of "str", "num", "null".                           *)
(***************************************************************************)
EXTENDS Integers, Sequences, FiniteSets, TLC

(***************************************************************************)
(* Bounds of the model.                                                    *)
(***************************************************************************)
\* longest sheet prefix the row scan specification explores
MaxRows == 3
\* most FileReader loads in flight at once
MaxPending == 2
\* most entries the selection ledger may hold
MaxSelected == 2

(***************************************************************************)
(* JavaScript string primitives used by the component.                     *)
(***************************************************************************)
Ch(s, i) == SubSeq(s, i, i)

LowerLetters == "abcdefghijklmnopqrstuvwxyzñáéíóú"
UpperLetters == "ABCDEFGHIJKLMNOPQRSTUVWXYZÑÁÉÍÓÚ"
AZ == {Ch(UpperLetters, i) : i \in 1..26}
Digits == {"0", "1", "2", "3", "4", "5", "6", "7", "8", "9"}
WhiteSpace == {" "}

IsWS(c) == c \in WhiteSpace

\* the upper-case and lower-case forms of the letters, as tables
UpperOf ==
    [c \in {Ch(LowerLetters, i) : i \in 1..Len(LowerLetters)} |->
        Ch(UpperLetters, CHOOSE i \in 1..Len(LowerLetters) : Ch(LowerLetters, i) = c)]

LowerOf ==
    [c \in {Ch(UpperLetters, i) : i \in 1..Len(UpperLetters)} |->
        Ch(LowerLetters, CHOOSE i \in 1..Len(UpperLetters) : Ch(UpperLetters, i) = c)]

UpperChar(c) == IF c \in DOMAIN UpperOf THEN UpperOf[c] ELSE c

LowerChar(c) == IF c \in DOMAIN LowerOf THEN LowerOf[c] ELSE c

\* the string made of a sequence of characters
RECURSIVE str(_)
str(cs) ==
    IF Len(cs) = 0 THEN ""
    ELSE IF Len(cs) = 1 THEN cs[1]
    ELSE LET h == Len(cs) \div 2
         IN  str(SubSeq(cs, 1, h)) \o str(SubSeq(cs, h + 1, Len(cs)))

\* the indices 1..n, ascending, that satisfy keep
indicesWhere(n, keep(_)) == SelectSeq([i \in 1..n |-> i], keep)

toUpperCase(s) == str([i \in 1..Len(s) |-> UpperChar(Ch(s, i))])

toLowerCase(s) == str([i \in 1..Len(s) |-> LowerChar(Ch(s, i))])

trimStart(s) ==
    LET ink == indicesWhere(Len(s), LAMBDA i : ~IsWS(Ch(s, i)))
    IN  IF Len(ink) = 0 THEN "" ELSE SubSeq(s, ink[1], Len(s))

trimEnd(s) ==
    LET ink == indicesWhere(Len(s), LAMBDA i : ~IsWS(Ch(s, i)))
    IN  IF Len(ink) = 0 THEN "" ELSE SubSeq(s, 1, ink[Len(ink)])

trim(s) == trimEnd(trimStart(s))

includes(s, sub) ==
    \E i \in 0..(Len(s) - Len(sub)) : SubSeq(s, i + 1, i + Len(sub)) = sub

startsWith(s, p) == Len(p) <= Len(s) /\ SubSeq(s, 1, Len(p)) = p

\* s.replace(/\s+/g, '')
removeSpaces(s) ==
    LET ink == indicesWhere(Len(s), LAMBDA i : ~IsWS(Ch(s, i)))
    IN  str([j \in 1..Len(ink) |-> Ch(s, ink[j])])

\* s.replace(/\s+/g, ' '): every maximal run of white space becomes one space
collapseSpaces(s) ==
    LET kept == indicesWhere(Len(s), LAMBDA i : ~IsWS(Ch(s, i)) \/ i = 1 \/ ~IsWS(Ch(s, i - 1)))
    IN  str([j \in 1..Len(kept) |-> IF IsWS(Ch(s, kept[j])) THEN " " ELSE Ch(s, kept[j])])

\* s.replace(new RegExp(word, 'g'), rep): leftmost non-overlapping matches
RECURSIVE replaceAll(_, _, _)
replaceAll(s, word, rep) ==
    LET hits == indicesWhere(Len(s), LAMBDA i : i + Len(word) - 1 <= Len(s) /\ SubSeq(s, i, i + Len(word) - 1) = word)
    IN  IF word = "" \/ Len(hits) = 0 THEN s
        ELSE SubSeq(s, 1, hits[1] - 1) \o rep
             \o replaceAll(SubSeq(s, hits[1] + Len(word), Len(s)), word, rep)

\* s.split(/\s{2,}/): cut at every maximal run of two or more white spaces
RECURSIVE splitWide(_)
splitWide(s) ==
    LET gaps == indicesWhere(Len(s), LAMBDA i : i < Len(s) /\ IsWS(Ch(s, i)) /\ IsWS(Ch(s, i + 1)))
    IN  IF Len(gaps) = 0 THEN <<s>>
        ELSE LET rest == SubSeq(s, gaps[1], Len(s))
                 after == indicesWhere(Len(rest), LAMBDA i : ~IsWS(Ch(rest, i)))
             IN  <<SubSeq(s, 1, gaps[1] - 1)>>
                 \o (IF Len(after) = 0 THEN <<"">>
                     ELSE splitWide(SubSeq(rest, after[1], Len(rest))))

\* words.join(sep)
RECURSIVE join(_, _)
join(words, sep) ==
    IF Len(words) = 0 THEN ""
    ELSE IF Len(words) = 1 THEN words[1]
    ELSE LET h == Len(words) \div 2
         IN  join(SubSeq(words, 1, h), sep) \o sep \o join(SubSeq(words, h + 1, Len(words)), sep)

\* Number.prototype.toString of an integer
RECURSIVE natToString(_)
natToString(n) ==
    IF n < 10 THEN Ch("0123456789", n + 1)
    ELSE natToString(n \div 10) \o Ch("0123456789", (n % 10) + 1)

numToString(n) == IF n < 0 THEN "-" \o natToString(0 - n) ELSE natToString(n)

(***************************************************************************)
(* Spreadsheet cells and rows, as XLSX.utils.sheet_to_json(sheet,          *)
(* {header: 1, defval: null}) yields them: a row is a sequence of cells,   *)
(* a cell is a string, a number or null.                                   *)
(***************************************************************************)
Str(s) == [k |-> "str", s |-> s, n |-> 0]
Num(n) == [k |-> "num", s |-> "", n |-> n]
Null == [k |-> "null", s |-> "", n |-> 0]

\* row[i] with JavaScript's zero-based index; past the end it is undefined,
\* which every test of the component treats as it treats null
cellAt(row, i) == IF i + 1 <= Len(row) THEN row[i + 1] ELSE Null

\* JavaScript truthiness of a cell value
truthy(c) ==
    CASE c.k = "str" -> c.s # ""
      [] c.k = "num" -> c.n # 0
      [] OTHER -> FALSE

\* cell.toString() / String(cell) of a string or a number
cellToString(c) == IF c.k = "num" THEN numToString(c.n) ELSE c.s

\* firstCell && typeof firstCell === 'string' &&
\*     (!secondCell || secondCell.toString().trim() === '')
isHeaderShape(row) ==
    LET firstCell == cellAt(row, 0)
        secondCell == cellAt(row, 1)
    IN  /\ truthy(firstCell)
        /\ firstCell.k = "str"
        /\ (~truthy(secondCell) \/ trim(cellToString(secondCell)) = "")

COURT_WORDS ==
    <<"CIRCUITO", "MUNICIPAL", "TRIBUNAL", "JUZGADO", "CONSEJO", "SUPREMA",
      "SALA", "FAMILIA", "LABORAL", "ADMINISTRATIVO", "PROMISCUO", "CIVIL",
      "PEQUEÑAS", "CAUSAS", "JUEZ", "DESPACHO", "PRIMERO", "SEGUNDO",
      "TERCERO", "CUARTO", "QUINTO", "SEXTO", "SEPTIMO", "OCTAVO", "NOVENO",
      "DECIMO">>

\* text is firstCell.toString().toUpperCase().replace(/\s+/g, '')
isCourtHeader(text) ==
    \E i \in 1..Len(COURT_WORDS) : includes(text, COURT_WORDS[i])

MinHeaderLength == 5

MONTHS ==
    <<"FEBRERO", "ENERO", "MARZO", "ABRIL", "MAYO", "JUNIO", "JULIO", "AGOSTO",
      "SEPTIEMBRE", "OCTUBRE", "NOVIEMBRE", "DICIEMBRE">>

\* text is firstCell.toString().toUpperCase().trim()
isStateText(text) ==
    \/ startsWith(text, "ESTADO")
    \/ includes(text, "FIJADO")
    \/ \E i \in 1..Len(MONTHS) : includes(text, MONTHS[i])

KEYWORDS ==
    <<"JUZGADO", "PROMISCUO", "MUNICIPAL", "CIRCUITO", "CIVIL", "FAMILIA",
      "LABORAL", "ADMINISTRATIVO", "TRIBUNAL", "SUPERIOR", "SALA", "PENAL",
      "PEQUEÑAS", "CAUSAS", "COMPETENCIA", "MULTIPLE", "ORAL", "EJECUCION",
      "SENTENCIAS", "RESTITUCION", "TIERRAS", "TRANSITO", "ADOLESCENTES",
      "PRIMERO", "SEGUNDO", "TERCERO", "CUARTO", "QUINTO", "SEXTO",
      "SEPTIMO", "OCTAVO", "NOVENO", "DECIMO", "UNDECIMO", "DUODECIMO",
      "DE", "DEL", "EL", "LA", "LOS", "LAS", "Y", "EN">>

\* insert w behind every element at least as long (Array.prototype.sort is stable)
RECURSIVE insertByLength(_, _)
insertByLength(sorted, w) ==
    IF Len(sorted) = 0 THEN <<w>>
    ELSE IF Len(sorted[1]) >= Len(w)
         THEN <<sorted[1]>> \o insertByLength(Tail(sorted), w)
         ELSE <<w>> \o sorted

\* words.sort((a, b) => b.length - a.length)
RECURSIVE sortByLengthDesc(_)
sortByLengthDesc(words) ==
    IF Len(words) = 0 THEN <<>>
    ELSE insertByLength(sortByLengthDesc(SubSeq(words, 1, Len(words) - 1)),
                        words[Len(words)])

sortedKeywords == sortByLengthDesc(KEYWORDS)

MinKeywordLength == 3

\* padKeyword without the length test: every keyword is padded
padKeyword_anyLength(reconstructed, word) ==
    replaceAll(reconstructed, word, " " \o word \o " ")

\* if (word.length > 3) reconstructed = reconstructed.replace(new RegExp(word, 'g'), ` ${word} `)
padKeyword(reconstructed, word) ==
    IF Len(word) > MinKeywordLength
    THEN replaceAll(reconstructed, word, " " \o word \o " ")
    ELSE reconstructed

\* sortedKeywords.forEach(word => ...): the words are applied first to last,
\* each to the string the words before it left (the list is halved, and the
\* string in between is bound as a value, only to keep the evaluation shallow)
RECURSIVE padKeywords(_, _)
padKeywords(compressed, words) ==
    IF Len(words) = 0 THEN compressed
    ELSE IF Len(words) = 1 THEN padKeyword(compressed, words[1])
    ELSE LET h == Len(words) \div 2
         IN  CHOOSE reconstructed \in
                 { padKeywords(half, SubSeq(words, h + 1, Len(words))) :
                       half \in {padKeywords(compressed, SubSeq(words, 1, h))} } : TRUE

\* /\s[A-Z]\s/.test(raw) || /^[A-Z](\s[A-Z])+$/.test(raw)
isLetterSpaced(raw) ==
    \/ \E i \in 1..(Len(raw) - 2) :
          IsWS(Ch(raw, i)) /\ Ch(raw, i + 1) \in AZ /\ IsWS(Ch(raw, i + 2))
    \/ /\ Len(raw) >= 3
       /\ Len(raw) % 2 = 1
       /\ \A i \in 1..Len(raw) :
             IF i % 2 = 1 THEN Ch(raw, i) \in AZ ELSE IsWS(Ch(raw, i))

\* words.map(w => w.replace(/\s+/g, ''))
cleanedWords(words) == [i \in 1..Len(words) |-> removeSpaces(words[i])]

\* reconstruct with the compression applied to every text
reconstruct_alwaysCompresses(raw) == removeSpaces(raw)

\* the three reconstruction strategies
reconstruct(raw) ==
    IF includes(raw, "  ")
    THEN join(cleanedWords(splitWide(raw)), " ")
    ELSE IF isLetterSpaced(raw)
         THEN trim(collapseSpaces(padKeywords(removeSpaces(raw), sortedKeywords)))
         ELSE raw

\* context.replace(/^JDO\.?\s*/, 'JUZGADO ')
expandJdo(context) ==
    IF startsWith(context, "JDO")
    THEN LET rest == SubSeq(context, 4, Len(context))
             rest2 == IF startsWith(rest, ".") THEN SubSeq(rest, 2, Len(rest)) ELSE rest
         IN  "JUZGADO " \o trimStart(rest2)
    ELSE context

\* context.replace(/^J\.\s*/, 'JUZGADO ')
expandJ(context) ==
    IF startsWith(context, "J.")
    THEN "JUZGADO " \o trimStart(SubSeq(context, 3, Len(context)))
    ELSE context

\* prependJuzgado without the prepending: the label is left as it is
prependJuzgado_never(context) == context

\* if (/^\d/.test(context) && !context.startsWith('JUZGADO')) context = 'JUZGADO ' + context
prependJuzgado(context) ==
    IF context # "" /\ Ch(context, 1) \in Digits /\ ~startsWith(context, "JUZGADO")
    THEN "JUZGADO " \o context
    ELSE context

\* if (currentContext) { upper case, expand abbreviations, prepend }
postProcess(label) ==
    IF label # ""
    THEN prependJuzgado(expandJ(expandJdo(toUpperCase(label))))
    ELSE label

\* the label an organizational header row leaves in currentContext
courtLabel(firstCell) == postProcess(reconstruct(trim(firstCell)))

(***************************************************************************)
(* The body of jsonData.forEach in handleSearch: one row of one sheet.     *)
(***************************************************************************)
\* firstCell.toString().toUpperCase().replace(/\s+/g, '')
normalizedText(row) == removeSpaces(toUpperCase(cellAt(row, 0).s))

\* firstCell.toString().toUpperCase().trim()
stateText(row) == trim(toUpperCase(cellAt(row, 0).s))

\* the row assigns currentContext: header shape, isCourtHeader && text.length > 5
isOrgHeaderRow(row) ==
    LET text == normalizedText(row)
    IN  isHeaderShape(row) /\ isCourtHeader(text) /\ Len(text) > MinHeaderLength

\* the row assigns currentStateContext: header shape, state text, !isCourtHeader
isStateHeaderRow(row) ==
    /\ isHeaderShape(row)
    /\ isStateText(stateText(row))
    /\ ~isCourtHeader(normalizedText(row))

\* the two context registers after the row, given the registers before it
processRow(row, before) ==
    [currentContext |->
         IF isOrgHeaderRow(row) THEN courtLabel(cellAt(row, 0).s)
         ELSE before.currentContext,
     currentStateContext |->
         IF isStateHeaderRow(row) THEN stateText(row)
         ELSE before.currentStateContext]

\* String(cell || '').toLowerCase()
cellText(cell) == IF truthy(cell) THEN toLowerCase(cellToString(cell)) ELSE ""

\* row.map(cell => String(cell || '').toLowerCase()).join(' ')
rowString(row) == join([i \in 1..Len(row) |-> cellText(row[i])], " ")

\* the SearchResult pushed for a matching row (rowIndex is zero-based here)
newResult(sheetName, rowIndex, row, registers) ==
    [sheetName |-> sheetName,
     rowIndex |-> rowIndex + 1,
     data |-> row,
     id |-> sheetName \o "-" \o numToString(rowIndex),
     context |-> registers.currentContext,
     stateContext |-> registers.currentStateContext]

\* (mutant) the row is pushed with the registers as they were before it
rowResults_beforeUpdate(sheetName, rowIndex, row, term, before, after) ==
    IF includes(rowString(row), term)
    THEN <<newResult(sheetName, rowIndex, row, before)>>
    ELSE <<>>

\* the results one row adds, given the registers before and after the row:
\* the registers are updated first, the row is matched and pushed afterwards
rowResults(sheetName, rowIndex, row, term, before, after) ==
    IF includes(rowString(row), term)
    THEN <<newResult(sheetName, rowIndex, row, after)>>
    ELSE <<>>

NoContext == [currentContext |-> "", currentStateContext |-> ""]

\* jsonData.forEach over rows[from..], starting from the given registers
RECURSIVE scanRows(_, _, _, _, _)
\* (mutant) only the rows that match the term update the registers
scanRows_matchingRowsOnly(sheetName, rows, from, term, before) ==
    IF from > Len(rows) THEN <<>>
    ELSE LET after == IF includes(rowString(rows[from]), term)
                      THEN processRow(rows[from], before)
                      ELSE before
         IN  rowResults(sheetName, from - 1, rows[from], term, before, after)
             \o scanRows(sheetName, rows, from + 1, term, after)

scanRows(sheetName, rows, from, term, before) ==
    IF from > Len(rows) THEN <<>>
    ELSE LET after == processRow(rows[from], before)
         IN  rowResults(sheetName, from - 1, rows[from], term, before, after)
             \o scanRows(sheetName, rows, from + 1, term, after)

\* the registers as the rows[from..] of a sheet leave them
RECURSIVE registersAfter(_, _, _)
registersAfter(rows, from, before) ==
    IF from > Len(rows) THEN before
    ELSE registersAfter(rows, from + 1, processRow(rows[from], before))

\* the sheets scanned with registers declared outside the loop over sheets
RECURSIVE scanSheetsFrom(_, _, _)
scanSheetsFrom(sheets, term, before) ==
    IF Len(sheets) = 0 THEN <<>>
    ELSE scanRows(sheets[1].name, sheets[1].rows, 1, term, before)
         \o scanSheetsFrom(Tail(sheets), term, registersAfter(sheets[1].rows, 1, before))

\* scanSheets with the registers carried from each sheet into the next
scanSheets_carriesContext(sheets, term) == scanSheetsFrom(sheets, term, NoContext)

\* workbook.SheetNames.forEach: both registers start empty in every sheet
RECURSIVE scanSheets(_, _)
scanSheets(sheets, term) ==
    IF Len(sheets) = 0 THEN <<>>
    ELSE scanRows(sheets[1].name, sheets[1].rows, 1, term, NoContext)
         \o scanSheets(Tail(sheets), term)

\* const term = searchTerm.toLowerCase()
searchTermOf(searchTerm) == toLowerCase(searchTerm)

(***************************************************************************)
(* The files a user may pick and what XLSX.read makes of each.             *)
(***************************************************************************)
NULL == "null"

NoWorkbook == [file |-> NULL, sheets |-> <<>>]

\* a bulletin of one sheet: court header, data row, state header, data row
SheetsA ==
    <<[name |-> "Hoja1",
       rows |-> << <<Str("JUZGADO SEXTO CIVIL MUNICIPAL"), Null, Null, Null>>,
                   <<Str("001"), Str("Ana Ruiz"), Str("Banco"), Num(0)>>,
                   <<Str("ESTADO 18 DEL 10 FEBRERO 2026"), Null, Null, Null>>,
                   <<Str("002"), Str("Luis"), Str("Diana"), Str("Auto")>> >>]>>

\* two sheets that share the first sheet's name with the other bulletin
SheetsB ==
    <<[name |-> "Hoja1",
       rows |-> << <<Str("S E X T O   C I V I L"), Str(" ")>>,
                   <<Str("Ana Mora"), Str("Luisa (hija)"), Num(7)>> >>],
      [name |-> "Hoja2",
       rows |-> << <<Num(0), Str("Diana")>> >>]>>

Files == {"a.xlsx", "b.xlsx", "c.txt"}

\* XLSX.read(data, {type: 'binary'}) returns a workbook or throws
readThrows(f) == f = "c.txt"

XLSX_read(f) ==
    IF f = "a.xlsx" THEN [file |-> f, sheets |-> SheetsA]
    ELSE [file |-> f, sheets |-> SheetsB]

ParseError == "Error al leer el archivo Excel. Asegúrate de que es un archivo válido."

\* what a user types into the search box
SearchTerms == {"", " ", "ana", " ana", "DIANA", "0", "("}

Keys == {"Enter", "a"}

(***************************************************************************)
(* The rows and terms the row scan specification draws from.               *)
(***************************************************************************)
RowPool ==
    { <<Str("JUZGADO SEXTO CIVIL MUNICIPAL"), Null, Null>>,
      <<Str("S E X T O   C I V I L"), Null>>,
      <<Str("L A B O R A L"), Null>>,
      <<Str("ESTADO 18 DEL 10 FEBRERO 2026"), Null>>,
      <<Str("Juzgado civil de mayo"), Str("  ")>>,
      <<Str("CIVIL"), Null>>,
      <<Str("001"), Str("Ana Civil"), Str("Banco"), Num(0)>>,
      <<Str("JUZGADO OCTAVO CIVIL"), Num(0)>>,
      <<Str("ESTADO 19 FIJADO"), Num(7)>>,
      <<Str("ESTADO 20 DE MAYO"), Num(0)>>,
      <<Num(2026), Null, Str("estado civil")>> }

ScanTerms == {"civil", "estado"}

ScanSheetName == "Hoja1"

\* no file has been saved
NoExport == [filename |-> NULL, body |-> <<>>]

PdfError == "Error al generar el PDF. Revisa la consola."

(***************************************************************************)
(* State.                                                                  *)
(***************************************************************************)
VARIABLES
    file,               \* useState<File | null>: the name of the chosen file
    workbook,           \* useState<XLSX.WorkBook | null>
    isLoading,
    searchTerm,
    results,            \* useState<SearchResult[]>
    hasSearched,
    error,              \* useState<string | null>
    selectedItems,      \* Map<string, SearchResult>, in insertion order
    pending,            \* FileReader loads whose onload has not fired, per file
    scanned,            \* row scan: the rows of the sheet processed so far
    term,               \* row scan: const term
    currentContext,     \* row scan: let currentContext
    currentStateContext,\* row scan: let currentStateContext
    newResults,         \* row scan: const newResults
    saved               \* the file last handed to saveAs, NoExport if none was

appVars == <<file, workbook, isLoading, searchTerm, results, hasSearched, error,
             selectedItems, pending>>
scanVars == <<scanned, term, currentContext, currentStateContext, newResults>>
vars == <<appVars, scanVars, saved>>

\* the state of Home after its first render
AppInit ==
    /\ file = NULL
    /\ workbook = NoWorkbook
    /\ isLoading = FALSE
    /\ searchTerm = ""
    /\ results = <<>>
    /\ hasSearched = FALSE
    /\ error = NULL
    /\ selectedItems = <<>>
    /\ pending = [f \in Files |-> 0]

\* handleSearch about to enter a sheet: both registers empty, nothing pushed
ScanInit ==
    /\ scanned = <<>>
    /\ currentContext = ""
    /\ currentStateContext = ""
    /\ newResults = <<>>

Init == AppInit /\ ScanInit /\ term = "" /\ saved = NoExport

(***************************************************************************)
(* Event handlers of Home.                                                 *)
(***************************************************************************)
pendingCount == pending["a.xlsx"] + pending["b.xlsx"] + pending["c.txt"]

\* (mutant) choosing a file resets everything but the ledger
handleFileUpload_keepsLedger(f) ==
    IF f = NULL
    THEN UNCHANGED vars
    ELSE /\ pendingCount < MaxPending
         /\ file' = f
         /\ isLoading' = TRUE
         /\ error' = NULL
         /\ workbook' = NoWorkbook
         /\ results' = <<>>
         /\ hasSearched' = FALSE
         /\ pending' = [pending EXCEPT ![f] = @ + 1]
         /\ UNCHANGED <<searchTerm, selectedItems, scanVars, saved>>

\* onChange of the file input; f = NULL is a change event without a file
handleFileUpload(f) ==
    IF f = NULL
    THEN UNCHANGED vars
    ELSE /\ pendingCount < MaxPending
         /\ file' = f
         /\ isLoading' = TRUE
         /\ error' = NULL
         /\ workbook' = NoWorkbook
         /\ results' = <<>>
         /\ hasSearched' = FALSE
         /\ selectedItems' = <<>>
         /\ pending' = [pending EXCEPT ![f] = @ + 1]
         /\ UNCHANGED <<searchTerm, scanVars, saved>>

\* reader.onload of a load of file f
readerOnload(f) ==
    /\ pending[f] > 0
    /\ pending' = [pending EXCEPT ![f] = @ - 1]
    /\ IF readThrows(f)
       THEN error' = ParseError /\ UNCHANGED workbook
       ELSE workbook' = XLSX_read(f) /\ UNCHANGED error
    /\ isLoading' = FALSE
    /\ UNCHANGED <<file, searchTerm, results, hasSearched, selectedItems, scanVars, saved>>

\* onChange of the search box, which is disabled while no workbook is loaded
setSearchTerm(t) ==
    /\ workbook # NoWorkbook
    /\ searchTerm' = t
    /\ UNCHANGED <<file, workbook, isLoading, results, hasSearched, error,
                   selectedItems, pending, scanVars, saved>>

\* (mutant) a search that clears the ledger, as choosing a file does
handleSearch_clearsLedger ==
    IF workbook = NoWorkbook \/ trim(searchTerm) = ""
    THEN UNCHANGED vars
    ELSE /\ hasSearched' = TRUE
         /\ results' = scanSheets(workbook.sheets, searchTermOf(searchTerm))
         /\ isLoading' = FALSE
         /\ selectedItems' = <<>>
         /\ UNCHANGED <<file, workbook, searchTerm, error, pending, scanVars, saved>>

\* (mutant) a search whose guard tests the term without trimming it
handleSearch_noTrim ==
    IF workbook = NoWorkbook \/ searchTerm = ""
    THEN UNCHANGED vars
    ELSE /\ hasSearched' = TRUE
         /\ results' = scanSheets(workbook.sheets, searchTermOf(searchTerm))
         /\ isLoading' = FALSE
         /\ UNCHANGED <<file, workbook, searchTerm, error, selectedItems, pending,
                        scanVars, saved>>

handleSearch ==
    IF workbook = NoWorkbook \/ trim(searchTerm) = ""
    THEN UNCHANGED vars
    ELSE /\ hasSearched' = TRUE
         /\ results' = scanSheets(workbook.sheets, searchTermOf(searchTerm))
         /\ isLoading' = FALSE
         /\ UNCHANGED <<file, workbook, searchTerm, error, selectedItems, pending,
                        scanVars, saved>>

\* onClick of the search button, disabled={!workbook || !searchTerm.trim() || isLoading}
clickSearch ==
    /\ workbook # NoWorkbook
    /\ trim(searchTerm) # ""
    /\ ~isLoading
    /\ handleSearch

\* onKeyDown of the search box
handleKeyDown(key) ==
    /\ workbook # NoWorkbook
    /\ IF key = "Enter" THEN handleSearch ELSE UNCHANGED vars

\* Map.prototype.has / delete / set on the ledger
has(items, id) == \E i \in 1..Len(items) : items[i].id = id

delete(items, id) == SelectSeq(items, LAMBDA r : r.id # id)

set(items, result) ==
    IF has(items, result.id)
    THEN [i \in 1..Len(items) |-> IF items[i].id = result.id THEN result ELSE items[i]]
    ELSE Append(items, result)

\* (mutant) a toggle that never removes
toggled_neverRemoves(items, result) == set(items, result)

toggled(items, result) ==
    IF has(items, result.id) THEN delete(items, result.id) ELSE set(items, result)

\* onClick of a result card
toggleSelection(result) ==
    /\ hasSearched
    /\ Len(toggled(selectedItems, result)) <= MaxSelected
    /\ selectedItems' = toggled(selectedItems, result)
    /\ UNCHANGED <<file, workbook, isLoading, searchTerm, results, hasSearched,
                   error, pending, scanVars, saved>>

RECURSIVE deleteAll(_, _)
deleteAll(items, visible) ==
    IF Len(visible) = 0 THEN items
    ELSE deleteAll(delete(items, visible[1].id), Tail(visible))

\* (mutant) selecting all visible results replaces the ledger by them
setAll_replacesLedger(items, visible) == visible

RECURSIVE setAll(_, _)
setAll(items, visible) ==
    IF Len(visible) = 0 THEN items
    ELSE setAll(set(items, visible[1]), Tail(visible))

\* (mutant) a select-all that never deselects
allToggled_alwaysSelects(items, visible) == setAll(items, visible)

allToggled(items, visible) ==
    LET allVisibleSelected ==
            Len(visible) > 0 /\ \A i \in 1..Len(visible) : has(items, visible[i].id)
    IN  IF allVisibleSelected THEN deleteAll(items, visible) ELSE setAll(items, visible)

toggleSelectAll ==
    /\ Len(allToggled(selectedItems, results)) <= MaxSelected
    /\ selectedItems' = allToggled(selectedItems, results)
    /\ UNCHANGED <<file, workbook, isLoading, searchTerm, results, hasSearched,
                   error, pending, scanVars, saved>>

\* onClick of "Seleccionar todo visible", rendered once hasSearched and
\* disabled={results.length === 0}
clickSelectAll ==
    /\ hasSearched
    /\ Len(results) > 0
    /\ toggleSelectAll

\* onClick of "Limpiar", shown while selectedItems.size > 0
clearSelection ==
    /\ Len(selectedItems) > 0
    /\ selectedItems' = <<>>
    /\ UNCHANGED <<file, workbook, isLoading, searchTerm, results, hasSearched,
                   error, pending, scanVars, saved>>

Next ==
    \/ \E f \in Files \cup {NULL} : handleFileUpload(f)
    \/ \E f \in Files : readerOnload(f)
    \/ \E t \in SearchTerms : setSearchTerm(t)
    \/ clickSearch
    \/ \E key \in Keys : handleKeyDown(key)
    \/ \E i \in 1..Len(results) : toggleSelection(results[i])
    \/ clickSelectAll
    \/ clearSelection

Spec == Init /\ [][Next]_vars

(***************************************************************************)
(* The rendering of the result cards.  Each card builds                    *)
(* new RegExp(`(${searchTerm})`, 'gi') from the search box as it is at the *)
(* time of rendering.  The constructor throws a SyntaxError on a source    *)
(* with an unmatched parenthesis or an unterminated character class; the   *)
(* scan below decides this for sources made of letters, digits, spaces,    *)
(* parentheses and square brackets.  The handlers above are not disabled   *)
(* by a rendering that throws: Spec has every behaviour of the page and    *)
(* those that would have ended at the error as well.                       *)
(***************************************************************************)
RECURSIVE regExpScan(_, _, _, _)
regExpScan(source, i, depth, inClass) ==
    IF i > Len(source) THEN inClass \/ depth > 0
    ELSE IF inClass THEN regExpScan(source, i + 1, depth, Ch(source, i) # "]")
    ELSE IF Ch(source, i) = "[" THEN regExpScan(source, i + 1, depth, TRUE)
    ELSE IF Ch(source, i) = "(" THEN regExpScan(source, i + 1, depth + 1, FALSE)
    ELSE IF Ch(source, i) = ")"
         THEN depth = 0 \/ regExpScan(source, i + 1, depth - 1, FALSE)
    ELSE regExpScan(source, i + 1, depth, FALSE)

\* new RegExp(source, 'gi') throws
regExpThrows(source) == regExpScan(source, 1, 0, FALSE)

\* hasSearched && results.length > 0: results.map renders a card per result
renderThrows ==
    /\ hasSearched
    /\ Len(results) > 0
    /\ regExpThrows("(" \o searchTerm \o ")")

(***************************************************************************)
(* The row scan of handleSearch, one row at a time, over every sheet of    *)
(* at most MaxRows rows drawn from RowPool.                                *)
(***************************************************************************)
scanRow(row) ==
    LET before == [currentContext |-> currentContext,
                   currentStateContext |-> currentStateContext]
        after == processRow(row, before)
    IN  /\ Len(scanned) < MaxRows
        /\ scanned' = Append(scanned, row)
        /\ currentContext' = after.currentContext
        /\ currentStateContext' = after.currentStateContext
        /\ newResults' = newResults
               \o rowResults(ScanSheetName, Len(scanned), row, term, before, after)
        /\ UNCHANGED <<term, appVars, saved>>

ScanNext == \E row \in RowPool : scanRow(row)

\* handleSearch entering a sheet with one of the terms
ScanStart == AppInit /\ ScanInit /\ term \in ScanTerms /\ saved = NoExport

ScanSpec == ScanStart /\ [][ScanNext]_vars

(***************************************************************************)
(* The row scan over sheets of a header row followed by a data row, the    *)
(* header text drawn from abbreviations, digits and paddings put before    *)
(* clean, widely spaced and letter-spaced court names.                     *)
(***************************************************************************)
HeaderPrefixes == {"", "JDO. ", "JDO.", "J. ", "j. ", "3 ", "12 "}

HeaderBodies ==
    {"CIVIL MUNICIPAL", "civil municipal", "Sala Penal",
     "S E X T O D E F A M I L I A", "S E X T O D E L A P A Z", "L A B O R A L",
     "S E X T O   C I V I L", "SEXTO  CIVIL"}

HeaderTexts ==
    {prefix \o body : prefix \in HeaderPrefixes, body \in HeaderBodies}
        \cup {" " \o prefix \o body \o " " : prefix \in HeaderPrefixes, body \in HeaderBodies}

HeaderRows == {<<Str(text), Null>> : text \in HeaderTexts}

DataRow == <<Str("001"), Str("Ana Civil"), Str("Estado"), Num(7)>>

HeaderNext ==
    \/ \E row \in HeaderRows : Len(scanned) = 0 /\ scanRow(row)
    \/ Len(scanned) = 1 /\ scanRow(DataRow)

HeaderSpec == ScanStart /\ [][HeaderNext]_vars

(***************************************************************************)
(* The report of generatePDF.                                              *)
(***************************************************************************)
ReportFile == "reporte_procesos.pdf"

\* value || fallback on a string
orElse(value, fallback) == IF value # "" THEN value ELSE fallback

\* r.data[i] || '-'
cellOrDash(data, i) == IF truthy(cellAt(data, i)) THEN cellAt(data, i) ELSE Str("-")

\* one row of tableData
tableRow(r) ==
    <<Str(orElse(r.context, "Sin asignar")),
      Str(orElse(r.stateContext, "-")),
      cellOrDash(r.data, 0),
      cellOrDash(r.data, 1),
      cellOrDash(r.data, 2),
      cellOrDash(r.data, 3),
      Str(r.sheetName)>>

\* Array.from(selectedItems.values()).map(r => [...])
tableData(items) == [i \in 1..Len(items) |-> tableRow(items[i])]

\* (mutant) an export that does not return early on an empty ledger
generatePDF_noEarlyReturn ==
    \/ /\ saved' = [filename |-> ReportFile, body |-> tableData(selectedItems)]
       /\ UNCHANGED <<appVars, scanVars>>
    \/ /\ Len(selectedItems) > 0
       /\ error' = PdfError
       /\ UNCHANGED <<file, workbook, isLoading, searchTerm, results, hasSearched,
                      selectedItems, pending, scanVars, saved>>

\* onClick of "Generar PDF".  The document constructor and Array.from, with
\* their constant arguments, do not throw; rendering the table and saving the
\* file either succeed or throw into the catch block, which sets the error.
generatePDF ==
    IF Len(selectedItems) = 0
    THEN UNCHANGED vars
    ELSE \/ /\ saved' = [filename |-> ReportFile, body |-> tableData(selectedItems)]
            /\ UNCHANGED <<appVars, scanVars>>
         \/ /\ error' = PdfError
            /\ UNCHANGED <<file, workbook, isLoading, searchTerm, results, hasSearched,
                           selectedItems, pending, scanVars, saved>>

(***************************************************************************)
(* The ledger and the export, their handlers called directly, over a       *)
(* loaded workbook showing the results of a search, with at most one row   *)
(* selected in an earlier search of the same workbook.                     *)
(***************************************************************************)
LedgerTerms == {t \in SearchTerms : trim(t) # ""}

Range(seq) == {seq[i] : i \in 1..Len(seq)}

LedgerStart ==
    /\ file \in {f \in Files : ~readThrows(f)}
    /\ workbook = XLSX_read(file)
    /\ isLoading = FALSE
    /\ searchTerm \in LedgerTerms
    /\ results = scanSheets(workbook.sheets, searchTermOf(searchTerm))
    /\ hasSearched = TRUE
    /\ error = NULL
    /\ \E earlier \in LedgerTerms :
          selectedItems \in {<<>>} \cup
              {<<r>> : r \in Range(scanSheets(workbook.sheets, searchTermOf(earlier)))}
    /\ pending = [f \in Files |-> 0]
    /\ ScanInit
    /\ term = ""
    /\ saved = NoExport

LedgerNext ==
    \/ \E i \in 1..Len(results) : toggleSelection(results[i])
    \/ toggleSelectAll
    \/ clearSelection
    \/ generatePDF

LedgerSpec == LedgerStart /\ [][LedgerNext]_vars

(***************************************************************************)
(* Vocabulary of the claims.                                               *)
(***************************************************************************)
\* a cell that is neither null/absent nor blank after trimming: any number,
\* or a string with a character other than white space
nonBlank(cell) == cell.k = "num" \/ (cell.k = "str" /\ trim(cell.s) # "")

\* header candidate: cell[0] a non-empty string, cell[1] null, absent or blank
headerCandidate(row) ==
    /\ cellAt(row, 0).k = "str"
    /\ cellAt(row, 0).s # ""
    /\ ~nonBlank(cellAt(row, 1))

\* organizational header: a candidate with a keyword and more than 5 characters
organizationalHeader(row) ==
    /\ headerCandidate(row)
    /\ isCourtHeader(normalizedText(row))
    /\ Len(normalizedText(row)) > 5

\* state header: a candidate with state text that is no organizational header
stateHeader(row) ==
    /\ headerCandidate(row)
    /\ isStateText(stateText(row))
    /\ ~organizationalHeader(row)

\* the last index below i whose row satisfies P, 0 if there is none
lastBefore(rows, i, P(_)) ==
    LET js == {j \in 1..(i - 1) : P(rows[j])}
    IN  IF js = {} THEN 0 ELSE CHOOSE j \in js : \A k \in js : k <= j

\* the label of the most recent header before row i, "" if there is none
labelBefore(rows, i, P(_)) ==
    IF lastBefore(rows, i, P) = 0 THEN ""
    ELSE courtLabel(cellAt(rows[lastBefore(rows, i, P)], 0).s)

stateBefore(rows, i, P(_)) ==
    IF lastBefore(rows, i, P) = 0 THEN ""
    ELSE stateText(rows[lastBefore(rows, i, P)])

\* the step just taken scanned one more row
scannedOne == Len(scanned') = Len(scanned) + 1

lastScanned == scanned'[Len(scanned')]

\* a step in which handleSearch ran with a workbook and a term not blank
validSearch ==
    /\ workbook # NoWorkbook
    /\ trim(searchTerm) # ""
    /\ (clickSearch \/ handleKeyDown("Enter"))

(***************************************************************************)
(* C1: every result of a row that is not a header candidate carries the    *)
(* label of the most recent organizational header earlier in the sheet as  *)
(* context and the text of the most recent state header earlier in the     *)
(* sheet as stateContext ("" where there is none), the two independently.  *)
(* Violated: a row whose cell[1] is the number 0 is not a candidate, yet   *)
(* the scan treats it as a header (see C5).                                *)
(***************************************************************************)
C1_ContextPropagation ==
    \A k \in 1..Len(newResults) :
        LET i == newResults[k].rowIndex
        IN  ~headerCandidate(scanned[i]) =>
                /\ newResults[k].context = labelBefore(scanned, i, organizationalHeader)
                /\ newResults[k].stateContext = stateBefore(scanned, i, stateHeader)

(***************************************************************************)
(* C2 as stated: the result of a row recognized as a header carries the    *)
(* contexts that were current before the row.                              *)
(***************************************************************************)
C2_HeaderCarriesPriorContext ==
    \A k \in 1..Len(newResults) :
        LET i == newResults[k].rowIndex
        IN  (isOrgHeaderRow(scanned[i]) \/ isStateHeaderRow(scanned[i])) =>
                /\ newResults[k].context = labelBefore(scanned, i, isOrgHeaderRow)
                /\ newResults[k].stateContext = stateBefore(scanned, i, isStateHeaderRow)

(***************************************************************************)
(* C2 amended: the result of a row recognized as a header carries the      *)
(* contexts as they are after the row's own assignment: its own label in   *)
(* the register it assigns, the most recent earlier header's in the other. *)
(***************************************************************************)
C2_HeaderCarriesOwnContext ==
    \A k \in 1..Len(newResults) :
        LET i == newResults[k].rowIndex
            row == scanned[i]
        IN  /\ isOrgHeaderRow(row) =>
                /\ newResults[k].context = courtLabel(cellAt(row, 0).s)
                /\ newResults[k].stateContext = stateBefore(scanned, i, isStateHeaderRow)
            /\ isStateHeaderRow(row) =>
                /\ newResults[k].stateContext = stateText(row)
                /\ newResults[k].context = labelBefore(scanned, i, isOrgHeaderRow)

\* a matching header row pushed under an earlier header with another label
C2_Witness ==
    \E k \in 1..Len(newResults) :
        LET i == newResults[k].rowIndex
        IN  /\ isOrgHeaderRow(scanned[i])
            /\ labelBefore(scanned, i, isOrgHeaderRow) # ""
            /\ labelBefore(scanned, i, isOrgHeaderRow) # newResults[k].context

(***************************************************************************)
(* C3: a step that shows new results or sets hasSearched without a file    *)
(* being chosen, that is, a search, leaves selectedItems as it was.        *)
(***************************************************************************)
C3_SearchKeepsLedger ==
    [][(pending' = pending /\ (results' # results \/ hasSearched' # hasSearched))
          => selectedItems' = selectedItems]_vars

\* a row selected in one search is still in the ledger while the results of
\* a later search, which does not show it, are displayed
C3_Witness ==
    /\ hasSearched
    /\ Len(results) > 0
    /\ \E i \in 1..Len(selectedItems) : ~has(results, selectedItems[i].id)

(***************************************************************************)
(* C4: a new file load supersedes the load in progress: the workbook       *)
(* installed is never that of a file other than the one chosen last.       *)
(* Violated: every reader's onload installs its workbook unconditionally.  *)
(***************************************************************************)
C4_NewLoadSupersedes ==
    workbook # NoWorkbook => workbook.file = file

(***************************************************************************)
(* C5: processing a row whose cell[1] is non-blank (any number, or a       *)
(* string not empty after trimming) leaves both context registers as they  *)
(* were.  Violated: the number 0 is falsy, so !secondCell holds for it.    *)
(***************************************************************************)
C5_NonBlankSecondCellNeverHeader ==
    [][(scannedOne /\ nonBlank(cellAt(lastScanned, 1)))
          => (currentContext' = currentContext
              /\ currentStateContext' = currentStateContext)]_vars

(***************************************************************************)
(* C6: a row changes the organizational context if and only if it is a     *)
(* header candidate whose normalized text has a keyword and more than 5    *)
(* characters; such a row sets it to its reconstructed label.  Violated    *)
(* by a row that is no candidate because its cell[1] is 0 (see C5).        *)
(***************************************************************************)
C6_OrganizationalHeaderIff ==
    [][scannedOne =>
          /\ (currentContext' # currentContext => organizationalHeader(lastScanned))
          /\ (organizationalHeader(lastScanned)
                 => currentContext' = courtLabel(cellAt(lastScanned, 0).s))]_vars

(***************************************************************************)
(* C7: a row sets the state context, to its uppercased trimmed cell[0], if *)
(* and only if it is a header candidate with state text that is not an     *)
(* organizational header, and no row changes both contexts.  Violated by   *)
(* a row that is no candidate because its cell[1] is 0 (see C5).           *)
(***************************************************************************)
C7_StateHeaderIff ==
    [][scannedOne =>
          /\ (currentStateContext' # currentStateContext => stateHeader(lastScanned))
          /\ (stateHeader(lastScanned) => currentStateContext' = stateText(lastScanned))
          /\ ~(currentContext' # currentContext
               /\ currentStateContext' # currentStateContext)]_vars

\* the row's joined text as the claim defines it: only null and absent cells
\* become the empty string, every other cell its lowercased text
joinedText(row) ==
    join([i \in 1..Len(row) |->
              IF row[i].k = "null" THEN "" ELSE toLowerCase(cellToString(row[i]))], " ")

\* the rows of a sheet, as <<sheet name, one-based index, cells>>, whose
\* joined text contains t
matchingRows(sheet, t) ==
    LET hits == indicesWhere(Len(sheet.rows), LAMBDA i : includes(joinedText(sheet.rows[i]), t))
    IN  [j \in 1..Len(hits) |-> <<sheet.name, hits[j], sheet.rows[hits[j]]>>]

RECURSIVE matchingRowsOfAll(_, _)
matchingRowsOfAll(sheets, t) ==
    IF Len(sheets) = 0 THEN <<>>
    ELSE matchingRows(sheets[1], t) \o matchingRowsOfAll(Tail(sheets), t)

(***************************************************************************)
(* C8: after a search with a valid term the results are exactly the rows,  *)
(* in sheet and row order, whose joined text contains the lowercased term. *)
(* Violated: String(cell || '') turns the number 0 into the empty string.  *)
(***************************************************************************)
C8_ResultsAreMatchingRows ==
    [][validSearch =>
          [k \in 1..Len(results') |->
               <<results'[k].sheetName, results'[k].rowIndex, results'[k].data>>]
          = matchingRowsOfAll(workbook.sheets, toLowerCase(searchTerm))]_vars

(***************************************************************************)
(* C9: a search with a term padded by white space yields the results of    *)
(* the search with the trimmed term.  Violated: the guard trims the term,  *)
(* the match uses searchTerm.toLowerCase() untrimmed.                      *)
(***************************************************************************)
C9_TermIsTrimmed ==
    [][validSearch =>
          results' = scanSheets(workbook.sheets, searchTermOf(trim(searchTerm)))]_vars

(***************************************************************************)
(* C10: while the term is empty or only white space no step other than a   *)
(* file being chosen or read changes results, hasSearched or isLoading,    *)
(* and handleSearch, by button or Enter key, leaves the ledger as it was.  *)
(***************************************************************************)
C10_BlankTermIsNoOp ==
    [][trim(searchTerm) = "" =>
          /\ (pending' = pending
                 => (results' = results /\ hasSearched' = hasSearched
                     /\ isLoading' = isLoading))
          /\ ((clickSearch \/ handleKeyDown("Enter"))
                 => selectedItems' = selectedItems)]_vars

\* a white-space-only term in the box while earlier results and a selection
\* are on display: Enter runs handleSearch here
C10_Witness ==
    /\ workbook # NoWorkbook
    /\ searchTerm = " "
    /\ hasSearched
    /\ Len(results) > 0
    /\ Len(selectedItems) > 0

\* the ids of a sequence of results
ids(items) == {items[i].id : i \in 1..Len(items)}

\* the entries of the ledger whose id is not among those of visible, in order
entriesOutside(items, visible) == SelectSeq(items, LAMBDA e : e.id \notin ids(visible))

(***************************************************************************)
(* C11: a toggleSelectAll step removes exactly the visible ids if every    *)
(* visible id was in the ledger, otherwise leaves every visible result in  *)
(* the ledger; either way the entries whose id is not visible stay as they *)
(* were.                                                                   *)
(***************************************************************************)
C11_SelectAllTouchesOnlyVisible ==
    [][toggleSelectAll =>
          /\ entriesOutside(selectedItems', results) = entriesOutside(selectedItems, results)
          /\ IF ids(results) \subseteq ids(selectedItems)
             THEN ids(selectedItems') = ids(selectedItems) \ ids(results)
             ELSE /\ ids(selectedItems') = ids(selectedItems) \cup ids(results)
                  /\ Range(results) \subseteq Range(selectedItems')]_vars

\* every visible result is selected next to an entry that is not visible
C11_Witness ==
    /\ Len(results) > 0
    /\ ids(results) \subseteq ids(selectedItems)
    /\ Len(entriesOutside(selectedItems, results)) > 0

\* the ledger after toggleSelectAll has run twice on the visible results
toggledTwice == allToggled(allToggled(selectedItems, results), results)

(***************************************************************************)
(* C12 as stated: toggleSelectAll on an empty result set leaves the ledger *)
(* as it was, and from any ledger two calls in a row on the same non-empty *)
(* visible set leave none of the visible rows selected.                    *)
(***************************************************************************)
C12_TwiceDeselectsAll ==
    /\ Len(results) = 0 => allToggled(selectedItems, results) = selectedItems
    /\ Len(results) > 0 => ids(toggledTwice) \cap ids(results) = {}

(***************************************************************************)
(* C12 amended: toggleSelectAll on an empty result set leaves the ledger   *)
(* as it was; two calls in a row on the same non-empty visible set leave   *)
(* none of the visible rows selected unless all of them were selected at   *)
(* the start, in which case the first call deselects them and the second   *)
(* selects them all again; entries that are not visible are kept.          *)
(***************************************************************************)
C12_TwiceTogglesBack ==
    /\ Len(results) = 0 => allToggled(selectedItems, results) = selectedItems
    /\ Len(results) > 0 =>
          /\ IF ids(results) \subseteq ids(selectedItems)
             THEN /\ ids(allToggled(selectedItems, results)) \cap ids(results) = {}
                  /\ ids(results) \subseteq ids(toggledTwice)
             ELSE /\ ids(results) \subseteq ids(allToggled(selectedItems, results))
                  /\ ids(toggledTwice) \cap ids(results) = {}
          /\ entriesOutside(toggledTwice, results) = entriesOutside(selectedItems, results)

\* toggleSelectAll has selected exactly the visible results: the next two
\* calls deselect and select them
C12_Witness ==
    /\ Len(results) > 0
    /\ ids(results) = ids(selectedItems)

(***************************************************************************)
(* C13: a toggleSelection step inserts the row under its id if the id was  *)
(* absent and removes the entry of that id if it was present, and leaves   *)
(* every other entry as it was; toggling the same row twice restores the   *)
(* set of ids; the ledger never holds two entries of one id, so its size   *)
(* is the number of distinct selected ids.                                 *)
(***************************************************************************)
C13_ToggleSelection ==
    /\ [](Cardinality(ids(selectedItems)) = Len(selectedItems))
    /\ [](\A i \in 1..Len(results) :
             ids(toggled(toggled(selectedItems, results[i]), results[i]))
                 = ids(selectedItems))
    /\ [][\A i \in 1..Len(results) :
             toggleSelection(results[i]) =>
                 /\ entriesOutside(selectedItems', <<results[i]>>)
                        = entriesOutside(selectedItems, <<results[i]>>)
                 /\ IF results[i].id \in ids(selectedItems)
                    THEN ids(selectedItems') = ids(selectedItems) \ {results[i].id}
                    ELSE /\ ids(selectedItems') = ids(selectedItems) \cup {results[i].id}
                         /\ results[i] \in Range(selectedItems')]_vars

\* one of several visible rows is selected, alone in the ledger
C13_Witness ==
    /\ hasSearched
    /\ Len(results) > 1
    /\ Len(selectedItems) = 1
    /\ selectedItems[1] \in Range(results)

\* the step just taken is handleFileUpload with a file
fileChosen == \E f \in Files : handleFileUpload(f)

(***************************************************************************)
(* C14: right after handleFileUpload with a file the workbook is null,     *)
(* results is empty, hasSearched is false, error is null and the ledger is *)
(* empty; and a step that leaves a non-empty ledger empty is that one or   *)
(* has the effect of clearSelection alone (toggling off the last selected  *)
(* rows is such a step): no search, key press or completed load does it.   *)
(***************************************************************************)
C14_FileChoiceResets ==
    [][/\ fileChosen =>
              /\ workbook' = NoWorkbook
              /\ results' = <<>>
              /\ hasSearched' = FALSE
              /\ error' = NULL
              /\ selectedItems' = <<>>
       /\ (selectedItems # <<>> /\ selectedItems' = <<>>)
              => (fileChosen \/ clearSelection)]_vars

\* a file was chosen over a session in which a workbook had been loaded and
\* a term typed: its load is in flight and the derived state is reset
C14_Witness ==
    /\ pendingCount > 0
    /\ searchTerm # ""
    /\ workbook = NoWorkbook
    /\ results = <<>>
    /\ ~hasSearched
    /\ selectedItems = <<>>

\* the step just taken is the onload of a file that XLSX.read rejects
decodeFailed == \E f \in Files : readThrows(f) /\ readerOnload(f)

(***************************************************************************)
(* C15: right after the decoding of the chosen file has failed, error is   *)
(* set, the workbook is null (so that handleSearch returns at its guard    *)
(* until a later load succeeds), results and the ledger are empty and      *)
(* isLoading is false.  Violated: the workbook installed by an earlier     *)
(* load that completed after the file was chosen is retained (see C4),     *)
(* with the results and selections made on it.                             *)
(***************************************************************************)
C15_FailedDecodeRetainsNothing ==
    [][decodeFailed =>
          /\ error' # NULL
          /\ workbook' = NoWorkbook
          /\ results' = <<>>
          /\ selectedItems' = <<>>
          /\ ~isLoading']_vars

\* the step just taken ran handleSearch, by button or by Enter key
searchAttempt == clickSearch \/ handleKeyDown("Enter")

(***************************************************************************)
(* C16: while a file load is in flight handleSearch is a no-op: it changes *)
(* neither results nor hasSearched.  Violated: an earlier load that        *)
(* completes while a later one is pending installs its workbook (see C4),  *)
(* and handleSearch then searches it.                                      *)
(***************************************************************************)
C16_NoSearchWhileLoading ==
    [][(pendingCount > 0 /\ searchAttempt)
          => (results' = results /\ hasSearched' = hasSearched)]_vars

\* the one-based indices of the scanned rows that match t, ascending
matchingIndices(t) ==
    indicesWhere(Len(scanned), LAMBDA i : includes(rowString(scanned[i]), t))

(***************************************************************************)
(* C17: the record of a row does not depend on the term.  The k-th result  *)
(* is the k-th matching row, its id is the sheet name, '-' and the         *)
(* zero-based index, its rowIndex that index plus 1; and a search of the   *)
(* same rows with any other term that the row matches yields the very      *)
(* same record for it, context and stateContext included.                  *)
(***************************************************************************)
C17_RecordIndependentOfTerm ==
    /\ Len(newResults) = Len(matchingIndices(term))
    /\ \A k \in 1..Len(newResults) :
          LET i == matchingIndices(term)[k]
          IN  /\ newResults[k].data = scanned[i]
              /\ newResults[k].rowIndex = (i - 1) + 1
              /\ newResults[k].id = ScanSheetName \o "-" \o numToString(i - 1)
              /\ newResults[k].sheetName = ScanSheetName
    /\ \A other \in ScanTerms \ {term} :
          LET others == scanRows(ScanSheetName, scanned, 1, other, NoContext)
          IN  \A k \in 1..Len(newResults) : \A j \in 1..Len(others) :
                  others[j].rowIndex = newResults[k].rowIndex
                      => others[j] = newResults[k]

\* a row found under a header that every term of the scan matches
C17_Witness ==
    \E k \in 1..Len(newResults) :
        /\ newResults[k].context # ""
        /\ newResults[k].rowIndex > 1
        /\ \A t \in ScanTerms : includes(rowString(newResults[k].data), t)

(***************************************************************************)
(* C18: with an empty ledger generatePDF changes nothing, and no step      *)
(* taken from an empty ledger saves a file or sets an error.               *)
(***************************************************************************)
C18_EmptyExportIsNoOp ==
    [][Len(selectedItems) = 0 =>
          /\ generatePDF => UNCHANGED vars
          /\ saved' = saved
          /\ error' = error]_vars

\* the ledger is empty after a report was saved: exporting again does nothing
C18_Witness ==
    /\ Len(selectedItems) = 0
    /\ saved # NoExport
    /\ error = NULL

\* the cell of the report as the claim defines it: '-' for a null or absent
\* cell, every present value as itself
presentOrDash(data, i) ==
    IF i + 1 > Len(data) \/ data[i + 1].k = "null" THEN Str("-") ELSE data[i + 1]

\* the seven columns of a selected row as the claim defines them
projectedRow(r) ==
    <<Str(IF r.context = "" THEN "Sin asignar" ELSE r.context),
      Str(IF r.stateContext = "" THEN "-" ELSE r.stateContext),
      presentOrDash(r.data, 0),
      presentOrDash(r.data, 1),
      presentOrDash(r.data, 2),
      presentOrDash(r.data, 3),
      Str(r.sheetName)>>

(***************************************************************************)
(* C19: the body of a saved report has, for each selected row in ledger    *)
(* order, the seven columns label, state, cell[0..3], sheet name, with the *)
(* placeholder only for an empty label, '-' only for an empty state and    *)
(* '-' only for a null or absent cell.  Violated: r.data[i] || '-' also    *)
(* replaces the number 0.                                                  *)
(***************************************************************************)
C19_ReportProjection ==
    [][saved' # saved =>
          saved'.body = [i \in 1..Len(selectedItems) |-> projectedRow(selectedItems[i])]]_vars

\* an organizational header whose label is rebuilt by the keyword strategy:
\* no run of two spaces, single letters separated by single spaces
letterSpacedHeader(row) ==
    /\ isOrgHeaderRow(row)
    /\ ~includes(trim(cellAt(row, 0).s), "  ")
    /\ isLetterSpaced(trim(cellAt(row, 0).s))

(***************************************************************************)
(* C20: after a letter-spaced header, every keyword longer than 3          *)
(* characters that occurs in the compressed text stands in the label as a  *)
(* whole word between spaces.  Violated: the keywords are padded longest   *)
(* first, so a shorter keyword padded later splits a longer one that       *)
(* contains it (ORAL inside LABORAL).                                      *)
(***************************************************************************)
C20_LongKeywordsAreWholeWords ==
    [][(scannedOne /\ letterSpacedHeader(lastScanned)) =>
          \A w \in Range(KEYWORDS) :
              (Len(w) > 3 /\ includes(removeSpaces(cellAt(lastScanned, 0).s), w))
                  => includes(" " \o currentContext' \o " ", " " \o w \o " ")]_vars

\* the words of a label: its maximal runs of characters other than the space
tokens(label) ==
    { SubSeq(label, a, CHOOSE b \in a..Len(label) :
                           /\ \A k \in a..b : Ch(label, k) # " "
                           /\ (b = Len(label) \/ Ch(label, b + 1) = " ")) :
          a \in { a \in 1..Len(label) :
                    Ch(label, a) # " " /\ (a = 1 \/ Ch(label, a - 1) = " ") } }

connectors == { w \in Range(KEYWORDS) : Len(w) <= MinKeywordLength }

longKeywords == { w \in Range(KEYWORDS) : Len(w) > MinKeywordLength }

\* the word w stands in the label at positions from..to
standsAt(label, w, from, to) ==
    from >= 1 /\ to <= Len(label) /\ to - from + 1 = Len(w) /\ SubSeq(label, from, to) = w

(***************************************************************************)
(* C21 as stated: after a letter-spaced header no connector (DE, DEL, EL,  *)
(* LA, LOS, LAS, Y, EN) is a word of its own in the label.  Violated: the  *)
(* padding of SEXTO and of FAMILIA leaves the DE between them alone,       *)
(* "SEXTO DE FAMILIA".                                                     *)
(***************************************************************************)
C21_ConnectorsStayFused ==
    [][(scannedOne /\ letterSpacedHeader(lastScanned)) =>
          tokens(currentContext') \cap connectors = {}]_vars

\* the number of characters other than the space among the first i of a label
lettersBefore(label, i) == Cardinality({ k \in 1..i : Ch(label, k) # " " })

(***************************************************************************)
(* C21 as the code has it: after a letter-spaced header no space of the    *)
(* label comes from a connector; every space of the label stands where a   *)
(* keyword longer than 3 characters ends or begins in the label read       *)
(* without its spaces.  A connector is a word of its own only between two  *)
(* such keywords, and stays fused to its neighbours otherwise.             *)
(***************************************************************************)
C21_SpacesOnlyAroundLongKeywords ==
    [][(scannedOne /\ letterSpacedHeader(lastScanned)) =>
          LET label == currentContext'
              fused == removeSpaces(label)
          IN  \A i \in 1..Len(label) :
                  Ch(label, i) = " " =>
                      LET n == lettersBefore(label, i)
                      IN  \E w \in longKeywords :
                              \/ standsAt(fused, w, n - Len(w) + 1, n)
                              \/ standsAt(fused, w, n + 1, n + Len(w))]_vars

\* the claim's input: SEXTO and FAMILIA are padded and the DE between them
\* is left a word of its own
C21_Witness ==
    /\ Len(scanned) = 1
    /\ letterSpacedHeader(scanned[1])
    /\ {"SEXTO", "DE", "FAMILIA"} \subseteq tokens(currentContext)

\* the label begins with a digit
startsWithDigit(label) == label # "" /\ Ch(label, 1) \in Digits

\* the text of an organizational header as the post-processing reads its
\* beginning: trimmed and in upper case
headerStart(row) == toUpperCase(trim(cellAt(row, 0).s))

(***************************************************************************)
(* C22: the label an organizational header stores is in upper case; it     *)
(* begins with 'JUZGADO ' when the header text begins with 'JDO.' or 'J.'  *)
(* (in either case), and with 'JUZGADO ' followed by the digit when the    *)
(* header text begins with a digit; and neither the context register nor   *)
(* the context of a result ever begins with a digit.                       *)
(***************************************************************************)
C22_LabelPostProcessing ==
    /\ [](/\ ~startsWithDigit(currentContext)
          /\ \A i \in 1..Len(newResults) : ~startsWithDigit(newResults[i].context))
    /\ [][(scannedOne /\ isOrgHeaderRow(lastScanned)) =>
             LET start == headerStart(lastScanned)
                 label == currentContext'
             IN  /\ label = toUpperCase(label)
                 /\ (startsWith(start, "JDO.") \/ startsWith(start, "J."))
                        => (startsWith(label, "JUZGADO ") /\ ~includes(label, "JDO.")
                               /\ ~includes(label, "J."))
                 /\ startsWithDigit(start)
                        => startsWith(label, "JUZGADO " \o Ch(start, 1))]_vars

\* a result under a lower-case header that begins with a digit
C22_Witness ==
    /\ Len(scanned) = 2
    /\ scanned[1] = <<Str("3 civil municipal"), Null>>
    /\ Len(newResults) = 1
    /\ newResults[1].context = "JUZGADO 3 CIVIL MUNICIPAL"

\* already-clean text: no run of two spaces, no single-letter spacing
cleanText(text) == ~includes(text, "  ") /\ ~isLetterSpaced(text)

\* an organizational header row whose text is already clean
cleanHeader(row) == isOrgHeaderRow(row) /\ cleanText(cellAt(row, 0).s)

(***************************************************************************)
(* C23 as stated: the label of an organizational header with already-clean *)
(* text equals the text.  Violated: the text is trimmed, put in upper case *)
(* and has its abbreviation expanded, "civil municipal" gives              *)
(* "CIVIL MUNICIPAL".                                                      *)
(***************************************************************************)
C23_CleanTextUnchanged ==
    [][(scannedOne /\ cleanHeader(lastScanned)) =>
          currentContext' = cellAt(lastScanned, 0).s]_vars

(***************************************************************************)
(* C23 as the code has it: for already-clean text no word is rebuilt; the  *)
(* label is the trimmed text in upper case, with a leading JDO / JDO. / J. *)
(* and the spaces after it replaced by 'JUZGADO ', or with 'JUZGADO ' put  *)
(* before a leading digit.  It equals the text exactly when the text is    *)
(* trimmed, in upper case, and begins with none of these.                  *)
(***************************************************************************)
C23_CleanTextNormalized ==
    [][(scannedOne /\ cleanHeader(lastScanned)) =>
          LET text  == cellAt(lastScanned, 0).s
              upper == toUpperCase(trim(text))
              afterJdo == IF startsWith(upper, "JDO.") THEN SubSeq(upper, 5, Len(upper))
                          ELSE SubSeq(upper, 4, Len(upper))
              expected ==
                  IF startsWith(upper, "JDO") THEN "JUZGADO " \o trimStart(afterJdo)
                  ELSE IF startsWith(upper, "J.")
                       THEN "JUZGADO " \o trimStart(SubSeq(upper, 3, Len(upper)))
                  ELSE IF startsWithDigit(upper) THEN "JUZGADO " \o upper
                  ELSE upper
          IN  /\ currentContext' = expected
              /\ currentContext' = text
                    <=> /\ text = upper
                        /\ ~startsWith(upper, "JDO")
                        /\ ~startsWith(upper, "J.")
                        /\ ~startsWithDigit(upper)]_vars

\* a clean header whose label is its text, and a result under it
C23_Witness ==
    /\ Len(scanned) = 2
    /\ cleanHeader(scanned[1])
    /\ currentContext = cellAt(scanned[1], 0).s
    /\ Len(newResults) = 1
    /\ newResults[1].context = currentContext

(***************************************************************************)
(* C24: when the results shown are those of the term in the search box and *)
(* there is at least one, rendering them raises no error.  Violated: the   *)
(* term '(' matches the row with "Luisa (hija)", and each result card      *)
(* builds the regular expression "(()" from it, a SyntaxError.             *)
(***************************************************************************)
C24_NoInputIsFatal ==
    (/\ workbook # NoWorkbook
     /\ hasSearched
     /\ trim(searchTerm) # ""
     /\ results = scanSheets(workbook.sheets, searchTermOf(searchTerm)))
        => ~renderThrows

\* the rows of the sheet of that name
rowsOf(book, sheetName) ==
    (CHOOSE sheet \in Range(book.sheets) : sheet.name = sheetName).rows

\* a step that installs the results of a search
searched == pending' = pending /\ results' # results

(***************************************************************************)
(* C25: in the results of every search, a row with no organizational       *)
(* header at or before it in its own sheet has an empty context, and a row *)
(* with no state header at or before it in its own sheet has an empty      *)
(* stateContext, whatever the sheets before it and the searches before     *)
(* this one held.                                                          *)
(***************************************************************************)
C25_RegistersStartEmpty ==
    [][searched =>
          \A i \in 1..Len(results') :
              LET r == results'[i]
                  rows == rowsOf(workbook, r.sheetName)
              IN  /\ (\A k \in 1..r.rowIndex : ~isOrgHeaderRow(rows[k]))
                         => r.context = ""
                  /\ (\A k \in 1..r.rowIndex : ~isStateHeaderRow(rows[k]))
                         => r.stateContext = ""]_vars

\* a search whose results have a row under the header of the first sheet
\* and the headerless row of the second sheet
C25_Witness ==
    /\ workbook.file = "b.xlsx"
    /\ \E i, j \in 1..Len(results) :
          /\ results[i].sheetName = "Hoja1" /\ results[i].context # ""
          /\ results[j].sheetName = "Hoja2" /\ results[j].context = ""
          /\ results[j].data = rowsOf(workbook, "Hoja2")[1]

\* sheet names with '-' and digits in them, and the row indices of a sheet
MaxIndex == 11

SheetNamePool == {"Hoja1", "Hoja", "Hoja-1", "Hoja-", "Hoja1-", "1", "1-1", "-"}

\* the id given to the row at that index of the sheet of that name
idOf(sheetName, rowIndex) == newResult(sheetName, rowIndex, <<>>, NoContext).id

\* different (sheet name, row index) pairs have different ids
idsInjective ==
    \A n1, n2 \in SheetNamePool : \A i1, i2 \in 0..MaxIndex :
        idOf(n1, i1) = idOf(n2, i2) => (n1 = n2 /\ i1 = i2)

\* the position of the sheet of that name among the sheets of the workbook
sheetPosition(book, sheetName) ==
    CHOOSE k \in 1..Len(book.sheets) : book.sheets[k].name = sheetName

\* the results are in sheet order, then in ascending row order, with ids
\* that all differ
orderedAndUnique(book, items) ==
    \A i, j \in 1..Len(items) :
        i < j =>
            /\ items[i].id # items[j].id
            /\ \/ sheetPosition(book, items[i].sheetName)
                      < sheetPosition(book, items[j].sheetName)
               \/ /\ items[i].sheetName = items[j].sheetName
                  /\ items[i].rowIndex < items[j].rowIndex

\* the ledger keeps distinct rows apart: a visible result and a ledger entry
\* of the same id are the same row
sameKeySameRow ==
    \A i \in 1..Len(results) : \A k \in 1..Len(selectedItems) :
        results[i].id = selectedItems[k].id
            => /\ results[i].sheetName = selectedItems[k].sheetName
               /\ results[i].rowIndex = selectedItems[k].rowIndex
               /\ results[i].data = selectedItems[k].data

\* the results of every search are in order with ids that all differ
C26_ResultsOrderedAndUnique ==
    [][searched => orderedAndUnique(workbook, results')]_vars

(***************************************************************************)
(* C26: the results of every search are in sheet order then ascending row  *)
(* order with ids that all differ; different (sheet name, row index) pairs *)
(* have different ids, '-' and digits in the sheet names included; and the *)
(* ledger never takes two distinct rows for one entry.  Violated in its    *)
(* last part: after a superseded load installs its workbook (C4), a row of *)
(* the new workbook has the id of a ledger entry of the old one.           *)
(***************************************************************************)
C26_IdentityKeysUnique ==
    /\ [](idsInjective /\ sameKeySameRow)
    /\ C26_ResultsOrderedAndUnique

\* the entry is a row of the workbook: its sheet is there and holds its data
\* at its row
rowOfWorkbook(book, entry) ==
    \E k \in 1..Len(book.sheets) :
        /\ book.sheets[k].name = entry.sheetName
        /\ entry.rowIndex <= Len(book.sheets[k].rows)
        /\ book.sheets[k].rows[entry.rowIndex] = entry.data

(***************************************************************************)
(* C27: in every reachable state every entry of the ledger is a row of the *)
(* workbook now installed.  Violated: a load superseded by a later file    *)
(* choice still installs its workbook (C4) and rows are selected from it;  *)
(* the later load then replaces the workbook and leaves the ledger.        *)
(***************************************************************************)
C27_LedgerOfCurrentWorkbook ==
    \A k \in 1..Len(selectedItems) : rowOfWorkbook(workbook, selectedItems[k])

====
